---- MODULE Spec2Model ----
(***************************************************************************)
(* A model of src/controller/macos.rs of ceviche-rs: the launchd           *)
(* controller (MacosController and the launchctl_* primitives) and the     *)
(* Ctrl-C dispatch bridge (dispatch).                                      *)
(*                                                                         *)
(* The file system and launchd are the environment of the controller: the  *)
(* outcome of every file operation and of every launchctl invocation is    *)
(* an input of the action that performs it.                                *)
(***************************************************************************)
EXTENDS Integers, Sequences, FiniteSets, TLC

VARIABLES
    service_name,   \* MacosController.service_name
    is_agent,       \* MacosController.is_agent
    session_types,  \* MacosController.session_types: <<>> is None, <<v>> is Some(v)
    keep_alive,     \* MacosController.keep_alive
    files,          \* the disk: path -> <<>> (no file) or <<content>>
    loaded,         \* launchd: the labels that are loaded
    running,        \* launchd: the labels whose job runs
    last,           \* the last controller call: what it did and what it returned
    used_paths,     \* every descriptor path a controller call has used so far
    pc,             \* the main thread's position in the service process
    calls,          \* how many times dispatch has been entered
    queue,          \* per dispatch call, the channel's events in flight
    rx_alive,       \* per dispatch call, is the Receiver not yet dropped
    body_tx,        \* per dispatch call, does the body still hold its Sender _tx
    handler,        \* 0, or the dispatch call whose tx the registered handler owns
    pending,        \* interrupts delivered whose handler run is still to come
    interrupts,     \* interrupts delivered so far
    handled,        \* handler runs so far
    stops,          \* Stop events the handler has put on a channel so far
    sent,           \* events the body has put on its channel so far
    received,       \* per dispatch call, the events the body has received, in order
    crashed         \* the process has panicked or was killed by a signal

ctl_vars == <<service_name, is_agent, session_types, keep_alive>>
env_vars == <<files, loaded, running>>
dispatch_vars == <<pc, calls, queue, rx_alive, body_tx, handler, pending,
                   interrupts, handled, stops, sent, received, crashed>>
vars == <<ctl_vars, env_vars, last, used_paths, dispatch_vars>>

(***************************************************************************)
(* Values                                                                  *)
(***************************************************************************)

\* The service names the model draws from.
Names == {"sample.agent", "com.example.daemon"}

\* What env::current_exe() can return: an error, or the path of the binary
\* as its components.
Exes == {<<"usr", "local", "bin", "sample">>, <<"opt", "sample">>}
ExeResults == {[ok |-> FALSE, path |-> <<>>]} \cup {[ok |-> TRUE, path |-> p] : p \in Exes}

\* How Command::output() can end: the tool could not be spawned, or it ran
\* and exited with a non-zero or a zero status.
Status == {"spawn_fail", "exit_nonzero", "exit_zero"}

\* How File::create(path).and_then(write_all) can end: File::create fails
\* (nothing changes), write_all fails (the file exists, truncated), or both
\* succeed.
WriteOutcomes == {"create_failed", "write_failed", "written"}

\* How fs::remove_file can end on a file that exists.
RemoveOutcomes == {"removed", "io_error"}

\* LaunchAgentTargetSesssion values, and the values of session_types.
SessionTypeLists == {<<>>, <<"GUI">>, <<"NonGUI", "PreLogin">>}
SessionTypeOptions == {<<>>} \cup {<<l>> : l \in SessionTypeLists}

\* impl fmt::Display for LaunchAgentTargetSesssion
Display(session_type) ==
    CASE session_type = "GUI" -> "Aqua"
      [] session_type = "NonGUI" -> "StandardIO"
      [] session_type = "PerUser" -> "Background"
      [] session_type = "PreLogin" -> "LoginWindow"

\* Result<(), Error>: Ok(()) and Err(Error::new(msg)); msg is kept as the
\* pieces format! puts together.
Ok == [ok |-> TRUE, msg |-> <<>>]
Err(msg) == [ok |-> FALSE, msg |-> msg]

\* PathBuf::to_str of an absolute path given as components.
RECURSIVE to_str(_)
to_str(p) ==
    IF Len(p) = 0 THEN ""
    ELSE to_str(SubSeq(p, 1, Len(p) - 1)) \o "/" \o p[Len(p)]

\* PathBuf::pop
pop(p) == SubSeq(p, 1, Len(p) - 1)

\* The controller, as the methods see it.
self == [service_name |-> service_name, is_agent |-> is_agent,
         session_types |-> session_types, keep_alive |-> keep_alive]

\* The environment, as the methods see it.
world == [files |-> files, loaded |-> loaded, running |-> running]

(***************************************************************************)
(* The environment: the disk and launchd, as launchctl acts on them        *)
(***************************************************************************)

\* One step a controller call has performed: a file operation or a
\* launchctl invocation, with its argument and how it ended.
Step(kind, path, name, st) == [kind |-> kind, path |-> path, name |-> name, st |-> st]

\* A file holds a complete descriptor when the closing element was written.
Complete(f) == f # <<>> /\ Len(f[1]) > 0 /\ f[1][Len(f[1])][1] = "</plist>"

\* The Label of a complete descriptor file.
LabelOf(f) ==
    LET i == CHOOSE j \in 1..Len(f[1]) : f[1][j][1] = "Label" IN f[1][i][2][1]

\* Can `launchctl <sub> <arg>` exit with status zero in world w: load and
\* unload read the descriptor at the path, unload, start and stop need the
\* unit to be loaded. The tool may always fail (spawn failure or a non-zero
\* exit).
CanSucceed(sub, path, name, w) ==
    CASE sub = "load" -> Complete(w.files[path])
      [] sub = "unload" -> Complete(w.files[path]) /\ LabelOf(w.files[path]) \in w.loaded
      [] sub = "start" -> name \in w.loaded
      [] sub = "stop" -> name \in w.loaded

\* launchd after `launchctl <sub> <arg>` ended with status st: only a zero
\* exit changes anything. Every generated descriptor has RunAtLoad, so a
\* loaded unit runs.
Launchd(sub, path, name, st, w) ==
    IF st # "exit_zero" \/ ~CanSucceed(sub, path, name, w) THEN w
    ELSE CASE sub = "load" ->
                [w EXCEPT !.loaded = @ \cup {LabelOf(w.files[path])},
                          !.running = @ \cup {LabelOf(w.files[path])}]
           [] sub = "unload" ->
                [w EXCEPT !.loaded = @ \ {LabelOf(w.files[path])},
                          !.running = @ \ {LabelOf(w.files[path])}]
           [] sub = "start" -> [w EXCEPT !.running = @ \cup {name}]
           [] sub = "stop" -> [w EXCEPT !.running = @ \ {name}]

\* Command::new("launchctl").arg(sub).arg(arg).output(): the world after it,
\* the step performed, and whether status st can occur in world w.
Command(sub, path, name, st, w) ==
    [world |-> Launchd(sub, path, name, st, w),
     steps |-> <<Step(sub, path, name, st)>>,
     possible |-> st = "exit_zero" => CanSucceed(sub, path, name, w)]

\* a; b, for the outcome a of the first part of a call and b of the rest.
AndThen(a, b) ==
    [world |-> b.world, steps |-> a.steps \o b.steps,
     possible |-> a.possible /\ b.possible, result |-> b.result]

(***************************************************************************)
(* The control primitives                                                  *)
(***************************************************************************)

launchctl_load_daemon(plist_path, st, w) ==
    LET output == Command("load", plist_path, "", st, w) IN
    [world |-> output.world, steps |-> output.steps, possible |-> output.possible,
     result |-> IF st = "spawn_fail"
                THEN Err(<<"Failed to load plist ", plist_path, ": ", "spawn error">>)
                ELSE Ok]

launchctl_unload_daemon(plist_path, st, w) ==
    LET output == Command("unload", plist_path, "", st, w) IN
    [world |-> output.world, steps |-> output.steps, possible |-> output.possible,
     result |-> IF st = "spawn_fail"
                THEN Err(<<"Failed to unload plist ", plist_path, ": ", "spawn error">>)
                ELSE Ok]

launchctl_start_daemon(name, st, w) ==
    LET output == Command("start", "", name, st, w) IN
    [world |-> output.world, steps |-> output.steps, possible |-> output.possible,
     result |-> IF st = "spawn_fail"
                THEN Err(<<"Failed to start ", name, ": ", "spawn error">>)
                ELSE Ok]

launchctl_stop_daemon(name, st, w) ==
    LET output == Command("stop", "", name, st, w) IN
    [world |-> output.world, steps |-> output.steps, possible |-> output.possible,
     result |-> IF st = "spawn_fail"
                THEN Err(<<"Failed to stop ", name, ": ", "spawn error">>)
                ELSE Ok]

(***************************************************************************)
(* MacosController                                                         *)
(***************************************************************************)

\* get_plist_content without the test of is_agent: the session types are
\* written in both scopes.
get_plist_content_any_scope(this, exe) ==
    IF ~exe.ok
    THEN [result |-> Err(<<"env::current_exe() failed: ", "os error">>), plist |-> <<>>]
    ELSE LET current_exe_str == to_str(exe.path)
             working_dir_str == to_str(pop(exe.path))
             head == << <<"<plist>", <<>>>>,
                        <<"Disabled", <<"false">>>>,
                        <<"Label", <<this.service_name>>>>,
                        <<"ProgramArguments", <<current_exe_str>>>>,
                        <<"WorkingDirectory", <<working_dir_str>>>>,
                        <<"RunAtLoad", <<"true">>>> >>
             session == IF this.session_types # <<>>
                        THEN << <<"LimitLoadToSessionType",
                                  [i \in 1..Len(this.session_types[1]) |->
                                      Display(this.session_types[1][i])]>> >>
                        ELSE <<>>
             keep == IF this.keep_alive THEN << <<"KeepAlive", <<"true">>>> >> ELSE <<>>
         IN [result |-> Ok,
             plist |-> head \o session \o keep \o << <<"</plist>", <<>>>> >>]

\* get_plist_content: the descriptor as its keys and values in the order
\* they are pushed, between the opening and the closing element.
get_plist_content(this, exe) ==
    IF ~exe.ok
    THEN [result |-> Err(<<"env::current_exe() failed: ", "os error">>), plist |-> <<>>]
    ELSE LET current_exe_str == to_str(exe.path)
             working_dir_str == to_str(pop(exe.path))
             head == << <<"<plist>", <<>>>>,
                        <<"Disabled", <<"false">>>>,
                        <<"Label", <<this.service_name>>>>,
                        <<"ProgramArguments", <<current_exe_str>>>>,
                        <<"WorkingDirectory", <<working_dir_str>>>>,
                        <<"RunAtLoad", <<"true">>>> >>
             session == IF this.is_agent /\ this.session_types # <<>>
                        THEN << <<"LimitLoadToSessionType",
                                  [i \in 1..Len(this.session_types[1]) |->
                                      Display(this.session_types[1][i])]>> >>
                        ELSE <<>>
             keep == IF this.keep_alive THEN << <<"KeepAlive", <<"true">>>> >> ELSE <<>>
         IN [result |-> Ok,
             plist |-> head \o session \o keep \o << <<"</plist>", <<>>>> >>]

\* The lengths a failed write_all can leave the file at: the shortest and
\* the longest proper prefix of the content (nothing, and all but the
\* closing element). Only a failed write_all has a length to choose.
PartialLens(this, exe, wo) ==
    IF exe.ok /\ wo = "write_failed"
    THEN {0, Len(get_plist_content(this, exe).plist) - 1}
    ELSE {0}

\* write_plist with File::create before get_plist_content: the file is
\* created or truncated though the executable's path is not known.
write_plist_create_first(this, path, exe, wo, k, w) ==
    LET content == get_plist_content(this, exe) IN
    IF ~content.result.ok
    THEN [world |-> [w EXCEPT !.files[path] = << <<>> >>],
          steps |-> <<Step("current_exe", "", "", "error")>>,
          possible |-> TRUE, result |-> content.result]
    ELSE [world |-> CASE wo = "create_failed" -> w
                      [] wo = "write_failed" ->
                            [w EXCEPT !.files[path] = <<SubSeq(content.plist, 1, k)>>]
                      [] wo = "written" ->
                            [w EXCEPT !.files[path] = <<content.plist>>],
          steps |-> <<Step("current_exe", to_str(exe.path), "", "ok"),
                      Step("write", path, "", wo)>>,
          possible |-> wo = "write_failed" => k < Len(content.plist),
          result |-> IF wo = "written" THEN Ok
                     ELSE Err(<<"Failed to write ", path, ": ", "io error">>)]

\* write_plist with the file opened without truncation: over a file that
\* exists, what it held stays.
write_plist_no_truncate(this, path, exe, wo, k, w) ==
    LET content == get_plist_content(this, exe) IN
    IF ~content.result.ok
    THEN [world |-> w, steps |-> <<Step("current_exe", "", "", "error")>>,
          possible |-> TRUE, result |-> content.result]
    ELSE [world |-> IF wo = "written" /\ w.files[path] = <<>>
                    THEN [w EXCEPT !.files[path] = <<content.plist>>]
                    ELSE w,
          steps |-> <<Step("current_exe", to_str(exe.path), "", "ok"),
                      Step("write", path, "", wo)>>,
          possible |-> wo = "write_failed" => k < Len(content.plist),
          result |-> IF wo = "written" THEN Ok
                     ELSE Err(<<"Failed to write ", path, ": ", "io error">>)]

\* write_plist: wo is how File::create and write_all end, k how much of the
\* content a failed write_all has written.
write_plist(this, path, exe, wo, k, w) ==
    LET content == get_plist_content(this, exe) IN
    IF ~content.result.ok
    THEN [world |-> w, steps |-> <<Step("current_exe", "", "", "error")>>,
          possible |-> TRUE, result |-> content.result]
    ELSE [world |-> CASE wo = "create_failed" -> w
                      [] wo = "write_failed" ->
                            [w EXCEPT !.files[path] = <<SubSeq(content.plist, 1, k)>>]
                      [] wo = "written" ->
                            [w EXCEPT !.files[path] = <<content.plist>>],
          steps |-> <<Step("current_exe", to_str(exe.path), "", "ok"),
                      Step("write", path, "", wo)>>,
          possible |-> wo = "write_failed" => k < Len(content.plist),
          result |-> IF wo = "written" THEN Ok
                     ELSE Err(<<"Failed to write ", path, ": ", "io error">>)]

plist_path(this) ==
    "/Library/"
    \o (IF this.is_agent THEN "LaunchAgents/" ELSE "LaunchDaemons/")
    \o this.service_name \o ".plist"

\* remove_file that takes a missing file for removed.
remove_file_force(path, ro, w) ==
    LET st == IF w.files[path] = <<>> THEN "removed" ELSE ro IN
    [world |-> IF st = "removed" THEN [w EXCEPT !.files[path] = <<>>] ELSE w,
     steps |-> <<Step("remove", path, "", st)>>,
     possible |-> TRUE,
     result |-> IF st = "removed" THEN Ok
                ELSE Err(<<"Failed to delete ", path, ": ", st>>)]

\* fs::remove_file(path).map_err(..): ro is how the removal of a file that
\* exists ends; a file that does not exist is an error.
remove_file(path, ro, w) ==
    LET st == IF w.files[path] = <<>> THEN "not_found" ELSE ro IN
    [world |-> IF st = "removed" THEN [w EXCEPT !.files[path] = <<>>] ELSE w,
     steps |-> <<Step("remove", path, "", st)>>,
     possible |-> TRUE,
     result |-> IF st = "removed" THEN Ok
                ELSE Err(<<"Failed to delete ", path, ": ", st>>)]

\* create without the test of is_agent: it loads in both scopes.
create_always_load(this, exe, wo, k, st, w) ==
    LET path == plist_path(this)
        written == write_plist(this, path, exe, wo, k, w)
    IN IF ~written.result.ok THEN written
       ELSE AndThen(written, launchctl_load_daemon(path, st, written.world))

create(this, exe, wo, k, st, w) ==
    LET path == plist_path(this)
        written == write_plist(this, path, exe, wo, k, w)
    IN IF ~written.result.ok THEN written
       ELSE IF ~this.is_agent
            THEN AndThen(written, launchctl_load_daemon(path, st, written.world))
            ELSE written

\* delete with the result of the unload dropped (no `?`).
delete_ignore_unload(this, st, ro, w) ==
    LET path == plist_path(this)
        nothing == [world |-> w, steps |-> <<>>, possible |-> TRUE, result |-> Ok]
        unloaded == IF ~this.is_agent THEN launchctl_unload_daemon(path, st, w)
                    ELSE nothing
    IN AndThen(unloaded, remove_file(path, ro, unloaded.world))

delete(this, st, ro, w) ==
    LET path == plist_path(this)
        nothing == [world |-> w, steps |-> <<>>, possible |-> TRUE, result |-> Ok]
        unloaded == IF ~this.is_agent THEN launchctl_unload_daemon(path, st, w)
                    ELSE nothing
    IN IF ~unloaded.result.ok THEN unloaded
       ELSE AndThen(unloaded, remove_file(path, ro, unloaded.world))

\* start that invokes launchctl a second time when the first run failed.
start_retry(this, st, w) ==
    LET first == launchctl_start_daemon(this.service_name, st, w) IN
    IF st = "exit_zero" THEN first
    ELSE AndThen(first, launchctl_start_daemon(this.service_name, st, first.world))

start(this, st, w) == launchctl_start_daemon(this.service_name, st, w)

stop(this, st, w) == launchctl_stop_daemon(this.service_name, st, w)

load(this, st, w) == launchctl_load_daemon(plist_path(this), st, w)

\* unload that removes the descriptor after the unload, as delete does.
unload_removes(this, st, w) == delete(this, st, "removed", w)

\* unload with the daemons' directory in both scopes.
unload_daemons_dir(this, st, w) ==
    launchctl_unload_daemon(plist_path([this EXCEPT !.is_agent = FALSE]), st, w)

unload(this, st, w) == launchctl_unload_daemon(plist_path(this), st, w)

(***************************************************************************)
(* The controller's calls as actions                                       *)
(***************************************************************************)

Paths == {plist_path([service_name |-> n, is_agent |-> a]) : n \in Names, a \in BOOLEAN}

\* The kinds of step that take a descriptor path, and the paths the steps
\* of a call have used.
PathKinds == {"write", "remove", "load", "unload"}
PathsOf(steps) == {steps[i].path : i \in {j \in 1..Len(steps) : steps[j].kind \in PathKinds}}

\* The state after a call that ended as `out`: the world it left, and the
\* record of the call (with the world it started from).
Called(op, out) ==
    /\ out.possible
    /\ files' = out.world.files
    /\ loaded' = out.world.loaded
    /\ running' = out.world.running
    /\ last' = [op |-> op, result |-> out.result, steps |-> out.steps,
                had_file |-> files[plist_path(self)] # <<>>,
                was_loaded |-> service_name \in loaded]
    /\ used_paths' = used_paths \cup PathsOf(out.steps)
    /\ UNCHANGED <<ctl_vars, dispatch_vars>>

Create ==
    \E exe \in ExeResults, wo \in WriteOutcomes, st \in Status :
        \E k \in PartialLens(self, exe, wo) :
            Called("create", create(self, exe, wo, k, st, world))

Delete ==
    \E st \in Status, ro \in RemoveOutcomes :
        Called("delete", delete(self, st, ro, world))

Start == \E st \in Status : Called("start", start(self, st, world))

Stop == \E st \in Status : Called("stop", stop(self, st, world))

Load == \E st \in Status : Called("load", load(self, st, world))

Unload == \E st \in Status : Called("unload", unload(self, st, world))


(***************************************************************************)
(* dispatch and the Ctrl-C handler                                         *)
(***************************************************************************)

\* How many times the model lets main enter dispatch, how many interrupts
\* it delivers, and how many events the body sends.
MaxDispatch == 2
MaxInterrupts == 2
MaxSends == 2

\* The events the service body puts on its own sender.
BodyEvents == {"Stop", "Continue"}

\* The dispatch call in progress (the channel it created).
cur == calls

\* The process has ended: a panic, or the default action of an interrupt
\* that found no handler.
Dead == crashed \/ pc = "killed"

\* send on a channel made by mpsc::sync_channel(1) with try_send: an event
\* that finds the buffer full is refused.
send_bounded(c, ev, q, alive) ==
    IF alive[c] /\ Len(q[c]) < 1 THEN [q EXCEPT ![c] = Append(@, ev)] ELSE q

\* send that puts the event at the head of the channel.
send_front(c, ev, q, alive) == IF alive[c] THEN [q EXCEPT ![c] = <<ev>> \o @] ELSE q

\* mpsc::Sender::send: the event is queued while the Receiver lives, and is
\* an error (the channel unchanged) once it is dropped.
send(c, ev, q, alive) == IF alive[c] THEN [q EXCEPT ![c] = Append(@, ev)] ELSE q

\* The closure with tx.send(ServiceEvent::Stop).unwrap(): a send to a
\* dropped Receiver panics.
handler_closure_unwrap(c, q, alive, n) ==
    [queue |-> send(c, [ev |-> "Stop", from |-> "handler", n |-> n], q, alive),
     panicked |-> ~alive[c]]

\* The closure given to ctrlc::set_handler: let _ = tx.send(ServiceEvent::Stop).
\* Its outcome: the channels after it, and whether it panicked.
handler_closure(c, q, alive, n) ==
    [queue |-> send(c, [ev |-> "Stop", from |-> "handler", n |-> n], q, alive),
     panicked |-> FALSE]

\* dispatch, line 259-260: the channel and the body's clone of the sender.
DispatchEnter ==
    /\ ~Dead /\ pc \in {"main", "returned"} /\ calls < MaxDispatch
    /\ calls' = calls + 1
    /\ queue' = [queue EXCEPT ![calls + 1] = <<>>]
    /\ rx_alive' = [rx_alive EXCEPT ![calls + 1] = TRUE]
    /\ body_tx' = [body_tx EXCEPT ![calls + 1] = TRUE]
    /\ pc' = "channel"
    /\ UNCHANGED <<ctl_vars, env_vars, last, used_paths, handler, pending, interrupts,
                   handled, stops, sent, received, crashed>>

\* Registration of a closure that owns the sender of another channel than
\* the one whose ends service_main is given.
RegisterHandler_other_channel ==
    /\ ~Dead /\ pc = "channel" /\ handler = 0
    /\ handler' = (cur % MaxDispatch) + 1
    /\ pc' = "body"
    /\ UNCHANGED <<ctl_vars, env_vars, last, used_paths, calls, queue, rx_alive, body_tx, pending,
                   interrupts, handled, stops, sent, received, crashed>>

\* ctrlc::set_handler(..) returns Ok: the handler owns tx; service_main starts.
RegisterHandler ==
    /\ ~Dead /\ pc = "channel" /\ handler = 0
    /\ handler' = cur
    /\ pc' = "body"
    /\ UNCHANGED <<ctl_vars, env_vars, last, used_paths, calls, queue, rx_alive, body_tx, pending,
                   interrupts, handled, stops, sent, received, crashed>>

\* The result of ctrlc::set_handler dropped (let _ = ..): service_main
\* starts though the registration failed.
RegisterFails_ignored ==
    /\ ~Dead /\ pc = "channel"
    /\ pc' = "body"
    /\ UNCHANGED <<ctl_vars, env_vars, last, used_paths, calls, queue, rx_alive, body_tx, handler,
                   pending, interrupts, handled, stops, sent, received, crashed>>

\* ctrlc::set_handler(..) returns Err (a handler is registered already, or
\* the system refuses): expect panics, and the unwinding drops rx and _tx.
RegisterFails ==
    /\ ~Dead /\ pc = "channel"
    /\ crashed' = TRUE
    /\ pc' = "panicked"
    /\ rx_alive' = [rx_alive EXCEPT ![cur] = FALSE]
    /\ body_tx' = [body_tx EXCEPT ![cur] = FALSE]
    /\ UNCHANGED <<ctl_vars, env_vars, last, used_paths, calls, queue, handler, pending,
                   interrupts, handled, stops, sent, received>>

\* The body (or a thread it gave a clone of its sender) sends an event.
BodySend ==
    /\ ~Dead /\ pc = "body" /\ body_tx[cur] /\ sent < MaxSends
    /\ \E e \in BodyEvents :
          queue' = send(cur, [ev |-> e, from |-> "body", n |-> sent + 1], queue, rx_alive)
    /\ sent' = sent + 1
    /\ UNCHANGED <<ctl_vars, env_vars, last, used_paths, pc, calls, rx_alive, body_tx, handler,
                   pending, interrupts, handled, stops, received, crashed>>

\* The body receives the next event.
BodyRecv ==
    /\ ~Dead /\ pc = "body" /\ rx_alive[cur] /\ queue[cur] # <<>>
    /\ received' = [received EXCEPT ![cur] = Append(@, Head(queue[cur]))]
    /\ queue' = [queue EXCEPT ![cur] = Tail(@)]
    /\ UNCHANGED <<ctl_vars, env_vars, last, used_paths, pc, calls, rx_alive, body_tx, handler,
                   pending, interrupts, handled, stops, sent, crashed>>

\* The body drops the Receiver; what the channel held is gone with it.
BodyDropRx ==
    /\ ~Dead /\ pc = "body" /\ rx_alive[cur]
    /\ rx_alive' = [rx_alive EXCEPT ![cur] = FALSE]
    /\ queue' = [queue EXCEPT ![cur] = <<>>]
    /\ UNCHANGED <<ctl_vars, env_vars, last, used_paths, pc, calls, body_tx, handler, pending,
                   interrupts, handled, stops, sent, received, crashed>>

\* The body drops its Sender.
BodyDropTx ==
    /\ ~Dead /\ pc = "body" /\ body_tx[cur]
    /\ body_tx' = [body_tx EXCEPT ![cur] = FALSE]
    /\ UNCHANGED <<ctl_vars, env_vars, last, used_paths, pc, calls, queue, rx_alive, handler,
                   pending, interrupts, handled, stops, sent, received, crashed>>

\* service_main returns, and dispatch with it: rx and _tx are dropped.
BodyReturn ==
    /\ ~Dead /\ pc = "body"
    /\ pc' = "returned"
    /\ rx_alive' = [rx_alive EXCEPT ![cur] = FALSE]
    /\ body_tx' = [body_tx EXCEPT ![cur] = FALSE]
    /\ queue' = [queue EXCEPT ![cur] = <<>>]
    /\ UNCHANGED <<ctl_vars, env_vars, last, used_paths, calls, handler, pending, interrupts,
                   handled, stops, sent, received, crashed>>

\* An interrupt reaches the process while a handler is registered.
Interrupt ==
    /\ ~Dead /\ handler # 0 /\ interrupts < MaxInterrupts
    /\ interrupts' = interrupts + 1
    /\ pending' = pending + 1
    /\ UNCHANGED <<ctl_vars, env_vars, last, used_paths, pc, calls, queue, rx_alive, body_tx,
                   handler, handled, stops, sent, received, crashed>>

\* An interrupt reaches the process before any handler is registered: the
\* default action ends the process.
InterruptKills ==
    /\ ~Dead /\ handler = 0 /\ interrupts < MaxInterrupts
    /\ interrupts' = interrupts + 1
    /\ pc' = "killed"
    /\ UNCHANGED <<ctl_vars, env_vars, last, used_paths, calls, queue, rx_alive, body_tx, handler,
                   pending, handled, stops, sent, received, crashed>>

\* The handler thread runs the registered closure for one interrupt.
HandlerRun ==
    /\ ~Dead /\ pending > 0
    /\ LET out == handler_closure(handler, queue, rx_alive, stops + 1) IN
          /\ queue' = out.queue
          /\ crashed' = out.panicked
          /\ stops' = IF out.queue # queue THEN stops + 1 ELSE stops
    /\ pending' = pending - 1
    /\ handled' = handled + 1
    /\ UNCHANGED <<ctl_vars, env_vars, last, used_paths, pc, calls, rx_alive, body_tx, handler,
                   interrupts, sent, received>>

(***************************************************************************)
(* Specifications                                                          *)
(***************************************************************************)

\* The process before dispatch is entered.
InitDispatch ==
    /\ pc = "main"
    /\ calls = 0
    /\ queue = [c \in 1..MaxDispatch |-> <<>>]
    /\ rx_alive = [c \in 1..MaxDispatch |-> FALSE]
    /\ body_tx = [c \in 1..MaxDispatch |-> FALSE]
    /\ handler = 0
    /\ pending = 0
    /\ interrupts = 0
    /\ handled = 0
    /\ stops = 0
    /\ sent = 0
    /\ received = [c \in 1..MaxDispatch |-> <<>>]
    /\ crashed = FALSE

\* A clean machine: no descriptor on disk, nothing loaded.
InitWorld ==
    /\ files = [p \in Paths |-> <<>>]
    /\ loaded = {}
    /\ running = {}
    /\ last = [op |-> "new", result |-> Ok, steps |-> <<>>,
               had_file |-> FALSE, was_loaded |-> FALSE]
    /\ used_paths = {}

\* A controller as MacosController::new makes it and as its owner has set
\* its public fields before the first call. No method assigns a field, so
\* the fields stay as they are from here on.
Init ==
    /\ service_name \in Names
    /\ is_agent \in BOOLEAN
    /\ session_types \in SessionTypeOptions
    /\ keep_alive \in BOOLEAN
    /\ InitWorld
    /\ InitDispatch

Next == Create \/ Delete \/ Start \/ Stop \/ Load \/ Unload

\* The controller's calls, in any order, with any outcome of the
\* environment.
Spec == Init /\ [][Next]_vars

\* MacosController::new("sample.agent", ..)
InitNew ==
    /\ service_name = "sample.agent"
    /\ is_agent = FALSE
    /\ session_types = <<>>
    /\ keep_alive = TRUE
    /\ InitWorld
    /\ InitDispatch

NextDispatch ==
    \/ DispatchEnter \/ RegisterHandler \/ RegisterFails
    \/ BodySend \/ BodyRecv \/ BodyDropRx \/ BodyDropTx \/ BodyReturn
    \/ Interrupt \/ InterruptKills \/ HandlerRun

\* The service process: dispatch, the body, interrupts and the handler
\* thread. The handler thread runs the closure for every interrupt it was
\* given, as long as the process lives.
SpecDispatch == InitNew /\ [][NextDispatch]_vars /\ WF_vars(HandlerRun)

(***************************************************************************)
(* Properties of the controller                                            *)
(***************************************************************************)

\* The steps of the last call that are of kind `kind`.
StepsOf(kind) == {i \in 1..Len(last.steps) : last.steps[i].kind = kind}

\* The launchctl invocations of the last call.
ToolSteps == {i \in 1..Len(last.steps) :
                 last.steps[i].kind \in {"load", "unload", "start", "stop"}}

\* The controller's own descriptor path.
OwnPath == plist_path(self)

\* C1: a control primitive whose launchctl invocation could not be spawned
\* or exited with a non-zero status returns an error; start() of a name
\* that launchd does not know returns an error that names the service.
C1_ToolFailureIsError ==
    /\ \A i \in ToolSteps : last.steps[i].st # "exit_zero" => ~last.result.ok
    /\ (last.op = "start" /\ ~last.was_loaded) =>
          /\ ~last.result.ok
          /\ \E j \in 1..Len(last.result.msg) : last.result.msg[j] = service_name

\* C2: a system-scoped create() writes the descriptor and then loads that
\* same path, never loads before the write has succeeded, and returns Ok
\* only if both the write and the load succeeded.
C2_CreateWritesThenLoads ==
    (last.op = "create" /\ ~is_agent) =>
        /\ \A i \in StepsOf("load") :
              /\ i > 1
              /\ last.steps[i - 1].kind = "write"
              /\ last.steps[i - 1].st = "written"
              /\ last.steps[i - 1].path = last.steps[i].path
        /\ last.result.ok =>
              /\ \E i \in StepsOf("write") : last.steps[i].st = "written"
              /\ \E i \in StepsOf("load") : last.steps[i].st = "exit_zero"

\* C3: a system-scoped delete() unloads before it removes; when the unload
\* primitive returns an error, delete() returns that error, attempts no
\* removal, and a descriptor that was on disk still is.
C3_DeleteUnloadsFirst ==
    (last.op = "delete" /\ ~is_agent) =>
        /\ last.steps[1].kind = "unload"
        /\ \A i \in StepsOf("remove") : i = 2
        /\ last.steps[1].st = "spawn_fail" =>
              /\ last.result = launchctl_unload_daemon(OwnPath, "spawn_fail", world).result
              /\ ~last.result.ok
              /\ StepsOf("remove") = {}
              /\ last.had_file => files[OwnPath] # <<>>

\* C3's case: a system-scoped delete() of a descriptor on disk whose unload
\* returned an error.
C3_Witness ==
    /\ last.op = "delete" /\ ~is_agent /\ last.had_file
    /\ last.steps[1].st = "spawn_fail"
    /\ ~last.result.ok

\* C4: when a system-scoped create() has written the descriptor and the
\* load fails, create() returns an error and the descriptor stays on disk.
C4_FailedLoadIsError ==
    (/\ last.op = "create" /\ ~is_agent
     /\ \E i \in StepsOf("write") : last.steps[i].st = "written"
     /\ \E i \in StepsOf("load") : last.steps[i].st # "exit_zero") =>
        /\ ~last.result.ok
        /\ files[OwnPath] # <<>>

\* C5: delete() without a descriptor file on disk returns an error, in
\* both scopes.
C5_DeleteOfMissingFails ==
    (last.op = "delete" /\ ~last.had_file) => ~last.result.ok

\* C5's case: a system-scoped delete() with no descriptor on disk whose
\* unload returned Ok, so that the removal was attempted.
C5_Witness ==
    /\ last.op = "delete" /\ ~is_agent /\ ~last.had_file
    /\ Len(last.steps) = 2
    /\ last.steps[2].st = "not_found"

\* C6: from no descriptor and no registration, a create() that returns Ok
\* followed at once by a delete() that returns Ok leaves no descriptor on
\* disk and the unit not loaded.
C6_CreateThenDeleteLeavesNothing ==
    [][(/\ last.op = "create" /\ last.result.ok
        /\ ~last.had_file /\ ~last.was_loaded
        /\ last'.op = "delete" /\ last'.result.ok) =>
            /\ files'[OwnPath] = <<>>
            /\ service_name \notin loaded']_vars

\* C7: create() over a registration that exists (the descriptor on disk
\* or the unit loaded) returns a conflict error. The calls in which
\* launchctl exits non-zero are left aside: what they return is C1's matter.
C7_CreateTwiceConflicts ==
    (/\ last.op = "create" /\ (last.had_file \/ last.was_loaded)
     /\ \A i \in ToolSteps : last.steps[i].st # "exit_nonzero") =>
        ~last.result.ok

\* C7 as amended: create() does not look for an earlier descriptor: a
\* write that succeeds leaves exactly the descriptor just built on disk,
\* whatever was there, and an agent-scoped create() then returns Ok.
C7_CreateOverwrites ==
    (/\ last.op = "create"
     /\ \E i \in StepsOf("write") : last.steps[i].st = "written") =>
        /\ \E exe \in ExeResults :
              /\ exe.ok
              /\ to_str(exe.path) = last.steps[1].path
              /\ files[OwnPath] = <<get_plist_content(self, exe).plist>>
        /\ is_agent => last.result.ok

\* C7's case: an agent-scoped create() over a descriptor that another
\* executable had installed.
C7_Witness ==
    /\ last.op = "create" /\ is_agent /\ last.had_file /\ last.result.ok
    /\ last.steps[1].path = "/opt/sample"

\* C8: every create, delete, load and unload of the controller uses one
\* path, which depends on the scope and the service name alone.
C8_OnePath ==
    /\ used_paths \subseteq {OwnPath}
    /\ \A s \in SessionTypeOptions, k \in BOOLEAN :
          plist_path([self EXCEPT !.session_types = s, !.keep_alive = k]) = OwnPath

\* C8's case: a delete() that removed the descriptor of an agent, which a
\* create() had written.
C8_Witness ==
    /\ is_agent /\ last.op = "delete" /\ last.result.ok /\ last.had_file
    /\ used_paths = {OwnPath}

\* C9: an agent-scoped create() only writes and an agent-scoped delete()
\* only removes: neither invokes launchctl, and launchd is as it was.
C9_AgentNoTool ==
    (is_agent /\ last.op \in {"create", "delete"}) =>
        /\ ToolSteps = {}
        /\ last.op = "create" => \A i \in 1..Len(last.steps) :
                                    last.steps[i].kind \in {"current_exe", "write"}
        /\ last.op = "delete" => \A i \in 1..Len(last.steps) :
                                    last.steps[i].kind = "remove"
        /\ (service_name \in loaded) = last.was_loaded

\* C9's case: an agent-scoped create() that wrote the descriptor of a unit
\* that is loaded.
C9_Witness ==
    /\ is_agent /\ last.op = "create" /\ last.result.ok
    /\ service_name \in loaded

(***************************************************************************)
(* Properties of dispatch                                                  *)
(***************************************************************************)

\* The Stop event the handler sends on its n-th successful send.
HandlerStop(n) == [ev |-> "Stop", from |-> "handler", n |-> n]

\* C10: once the handler is registered, every interrupt the handler has
\* run for has put exactly one Stop on the receiver handed to the body.
C10_EveryInterruptOneStop == stops = handled

\* C10 as amended: a handler run while the Receiver is not dropped puts
\* exactly one Stop at the end of the body's channel, and a run after the
\* Receiver was dropped puts nothing; neither a handler run nor an
\* interrupt that meets a registered handler ends the process; and the
\* handler runs for every interrupt as long as the process lives.
C10_StopPerLiveInterrupt ==
    /\ [][handled' = handled + 1 =>
            /\ crashed' = crashed /\ pc' = pc
            /\ IF rx_alive[handler]
               THEN /\ queue'[handler] = Append(queue[handler], HandlerStop(stops + 1))
                    /\ stops' = stops + 1
               ELSE queue' = queue /\ stops' = stops]_vars
    /\ [][(interrupts' = interrupts + 1 /\ handler # 0) =>
            (crashed' = crashed /\ pc' = pc)]_vars
    /\ \A k \in 1..MaxInterrupts :
          (interrupts >= k) ~> (handled >= k \/ Dead)

\* C10's case: a second interrupt was handled before the body has taken
\* the Stop of the first, and the process lives.
C10_Witness ==
    /\ handler # 0 /\ ~Dead /\ rx_alive[handler]
    /\ handled = 2
    /\ queue[handler] = <<HandlerStop(1), HandlerStop(2)>>

\* Every event of channel c that the body has received or that waits in
\* the channel, in the order of the channel.
Events(c) == received[c] \o queue[c]

\* The numbers of the events of channel c that producer `from` has sent.
Tags(c, from) == {Events(c)[i].n : i \in {j \in 1..Len(Events(c)) : Events(c)[j].from = from}}

\* The senders of channel c that live: the body's _tx (with its clones) and
\* the tx that the registered closure owns.
Senders(c) == (IF body_tx[c] THEN 1 ELSE 0) + (IF handler = c THEN 1 ELSE 0)

\* C11: with the handler and the body sending on clones of one sender, in
\* every interleaving each event sent is in the channel or received,
\* exactly once, and a send never waits for the consumer: it queues the
\* event whatever the channel holds.
C11_ConcurrentSendsAllArrive ==
    /\ [](\A c \in 1..MaxDispatch :
            \A i, j \in 1..Len(Events(c)) : Events(c)[i] = Events(c)[j] => i = j)
    /\ []((pc = "body" /\ rx_alive[cur] /\ handler = cur) =>
            /\ Tags(cur, "handler") = 1..stops
            /\ Tags(cur, "body") = 1..sent
            /\ Len(Events(cur)) = stops + sent)
    /\ [][(sent' = sent + 1 /\ rx_alive[cur]) =>
            Len(queue'[cur]) = Len(queue[cur]) + 1]_vars
    /\ [][(handled' = handled + 1 /\ rx_alive[handler]) =>
            Len(queue'[handler]) = Len(queue[handler]) + 1]_vars

\* C11's case: the handler and the body have each sent two events, in some
\* interleaving, and the body has received all four.
C11_Witness ==
    /\ pc = "body" /\ handler = cur
    /\ stops = 2 /\ sent = 2
    /\ Len(received[cur]) = 4
    /\ received[cur][1].from = "body" /\ received[cur][2].from = "handler"

\* C12: the events of one producer reach the body in the order in which
\* that producer sent them.
C12_PerProducerOrder ==
    \A c \in 1..MaxDispatch :
        \A i, j \in 1..Len(Events(c)) :
            (i < j /\ Events(c)[i].from = Events(c)[j].from) => Events(c)[i].n < Events(c)[j].n

\* C12's case: the body has received the Stops of two successive
\* interrupts.
C12_Witness ==
    /\ pc = "body"
    /\ received[cur] = <<HandlerStop(1), HandlerStop(2)>>

\* C13: one handler at most is registered in a process: a second dispatch
\* panics on the failed registration, its service body is not run, and the
\* handler of the first dispatch stays.
C13_OneHandler ==
    /\ handler \in {0, 1}
    /\ pc = "body" => calls = 1
    /\ calls >= 2 =>
          /\ handler = 1
          /\ pc \in {"channel", "panicked"}
          /\ pc = "panicked" => crashed
          /\ \A c \in 2..MaxDispatch : received[c] = <<>> /\ queue[c] = <<>>

\* C13's case: a second dispatch has panicked, the first handler registered.
C13_Witness == calls = 2 /\ pc = "panicked" /\ crashed /\ handler = 1

\* C14: the channel is made before the handler is registered and the
\* handler is registered before the body runs, with the sender of that
\* channel: while the body runs and holds its Receiver, a handler run puts
\* its Stop at the end of the body's channel, and so does a send of the body.
C14_ChannelHandlerBody ==
    /\ [](handler # 0 => handler <= calls)
    /\ [](pc = "channel" => calls >= 1 /\ rx_alive[cur] /\ body_tx[cur])
    /\ [](pc = "body" => handler = cur)
    /\ [][(handled' = handled + 1 /\ pc = "body" /\ rx_alive[cur]) =>
            queue'[cur] = Append(queue[cur], HandlerStop(stops + 1))]_vars
    /\ [][(sent' = sent + 1 /\ rx_alive[cur]) =>
            \E e \in BodyEvents :
                queue'[cur] = Append(queue[cur], [ev |-> e, from |-> "body", n |-> sent + 1])]_vars

\* C14's case: the body runs and its channel holds an event of its own
\* sender and then the Stop of an interrupt.
C14_Witness ==
    /\ pc = "body" /\ rx_alive[cur]
    /\ Len(queue[cur]) = 2
    /\ queue[cur][1].from = "body"
    /\ queue[cur][2] = HandlerStop(1)

\* C16: the handler neither panics nor blocks: its run ends the process in
\* no case, it can run whenever an interrupt waits for it, and after the
\* Receiver was dropped the failed send changes nothing.
C16_HandlerNeverPanics ==
    /\ [][handled' = handled + 1 =>
            /\ crashed' = crashed /\ pc' = pc
            /\ ~rx_alive[handler] => (queue' = queue /\ stops' = stops)]_vars
    /\ []((pending > 0 /\ ~Dead) => ENABLED HandlerRun)

\* C16's case: the handler has run for an interrupt that came after the
\* body had dropped the Receiver, and the process lives.
C16_Witness ==
    /\ handler # 0 /\ ~rx_alive[handler] /\ ~Dead
    /\ handled = 1 /\ stops = 0 /\ pending = 0

\* C20: once the handler is registered it stays registered and owns a
\* sender of the body's channel, so the channel of a running body always
\* has a live sender (a receive never finds it closed), also after the body
\* has dropped its own sender; with the channel empty the receive waits.
C20_ChannelNeverClosed ==
    /\ [][handler # 0 => handler' = handler]_vars
    /\ []((pc = "body" /\ rx_alive[cur]) => Senders(cur) > 0)
    /\ []((pc = "body" /\ rx_alive[cur] /\ queue[cur] = <<>>) => ~ENABLED BodyRecv)

\* C20's case: the body waits on an empty channel after it has dropped its
\* own sender.
C20_Witness ==
    /\ pc = "body" /\ rx_alive[cur] /\ ~body_tx[cur]
    /\ queue[cur] = <<>>
    /\ pending = 0

(***************************************************************************)
(* Further properties of the controller                                    *)
(***************************************************************************)

\* The value of key `key` in descriptor content `plist`, in a set: empty
\* when the key is absent.
ValuesOf(plist, key) == {plist[i][2] : i \in {j \in 1..Len(plist) : plist[j][1] = key}}

\* C15: start(), stop(), load() and unload() each invoke launchctl exactly
\* once, whether it succeeds or fails: a failed invocation is not retried.
C15_OneInvocation ==
    last.op \in {"start", "stop", "load", "unload"} =>
        /\ Len(last.steps) = 1
        /\ last.steps[1].kind = last.op

\* C15's case: a start() whose launchctl run could not be spawned.
C15_Witness ==
    /\ last.op = "start" /\ ~last.result.ok
    /\ last.steps[1].st = "spawn_fail"

\* C17: a step that is a start(), stop(), load() or unload() (the step
\* after which `last` is the record of that call) leaves every descriptor
\* file as it is, whether they succeed or fail; start() and stop() name the
\* unit by the service name alone, load() and unload() by the computed
\* path alone.
C17_CallsLeaveFiles ==
    [][last'.op \in {"start", "stop", "load", "unload"} =>
          /\ files' = files
          /\ \A i \in 1..Len(last'.steps) :
                IF last'.op \in {"start", "stop"}
                THEN last'.steps[i].name = service_name /\ last'.steps[i].path = ""
                ELSE last'.steps[i].path = OwnPath /\ last'.steps[i].name = ""]_vars

\* C17's case: an unload() that succeeded with the descriptor on disk,
\* which is still there.
C17_Witness ==
    /\ last.op = "unload" /\ last.result.ok /\ last.had_file
    /\ last.steps[1].st = "exit_zero"
    /\ files[OwnPath] # <<>>

\* C18: a descriptor that create() has written holds the session types
\* exactly when the controller is an agent and session_types is set, holds
\* KeepAlive exactly when keep_alive is true, and always holds the service
\* name as its Label and RunAtLoad.
C18_DescriptorContent ==
    (/\ last.op = "create"
     /\ \E i \in StepsOf("write") : last.steps[i].st = "written") =>
        LET plist == files[OwnPath][1] IN
        /\ ValuesOf(plist, "LimitLoadToSessionType") # {}
              <=> (is_agent /\ session_types # <<>>)
        /\ (is_agent /\ session_types # <<>>) =>
              ValuesOf(plist, "LimitLoadToSessionType")
                  = {[i \in 1..Len(session_types[1]) |-> Display(session_types[1][i])]}
        /\ ValuesOf(plist, "KeepAlive") = (IF keep_alive THEN {<<"true">>} ELSE {})
        /\ ValuesOf(plist, "Label") = {<<service_name>>}
        /\ ValuesOf(plist, "RunAtLoad") = {<<"true">>}

\* C18's case: a system-scoped controller with session types set has
\* written its descriptor.
C18_Witness ==
    /\ ~is_agent /\ session_types = << <<"GUI">> >> /\ ~keep_alive
    /\ last.op = "create"
    /\ \E i \in StepsOf("write") : last.steps[i].st = "written"

\* C19: a create() that fails on env::current_exe() has done nothing else:
\* the descriptor files and launchd are as they were and launchctl was not
\* invoked; and a create() whose write fails returns the error of the
\* write and does not invoke the load.
C19_CreateFailsEarly ==
    /\ [][(last'.op = "create" /\ last'.steps[1].st = "error") =>
            /\ ~last'.result.ok
            /\ last'.result.msg[1] = "env::current_exe() failed: "
            /\ Len(last'.steps) = 1
            /\ files' = files /\ loaded' = loaded /\ running' = running]_vars
    /\ [](\A i \in StepsOf("write") :
            (last.op = "create" /\ last.steps[i].st # "written") =>
                /\ ~last.result.ok
                /\ last.result.msg[1] = "Failed to write "
                /\ ToolSteps = {})

\* C19's case: a create() over a descriptor on disk has failed on
\* env::current_exe().
C19_Witness ==
    /\ last.op = "create" /\ last.had_file /\ ~last.result.ok
    /\ last.steps[1].st = "error"
    /\ files[OwnPath] # <<>>

====
